---- MODULE Spec2Model ----
(***************************************************************************)
(* Trace-correlated log export transport (SigNozTransport).                *)
(*                                                                         *)
(* The repository holds three variants of the transport:                   *)
(*   "loggerA"  src/src/logger.js, lines 1-184   (first variant)           *)
(*   "loggerB"  src/src/logger.js, lines 185-371 (second variant)          *)
(*   "otel"     src/src/winston-otel-transport.js                          *)
(* A process runs one of them; `variant' is fixed at construction.         *)
(*                                                                         *)
(* Three specifications:                                                   *)
(*   Spec          a few events, every interleaving of their deliveries    *)
(*   SpecBuild     one event drawn from the whole input set, logged once   *)
(*   SpecSeverity  the severity mapping applied to one level string        *)
(*                                                                         *)
(* The time fields of a record (Date.now()) are left out: no property      *)
(* below reads them.                                                       *)
(*                                                                         *)
(* JavaScript values are records [t |-> type tag, s |-> text form]; a      *)
(* JavaScript object is the sequence of its own properties in insertion    *)
(* order, each [key |-> k, value |-> v].                                   *)
(***************************************************************************)
EXTENDS Integers, Sequences, FiniteSets, TLC

VARIABLES variant, pc, event, ctx, info, sevNum, outcome, logRecord, payload,
          requests, diag, callbacks, thrown, nLogged, immediates, logged

vars == <<variant, pc, event, ctx, info, sevNum, outcome, logRecord, payload,
          requests, diag, callbacks, thrown, nLogged, immediates, logged>>

(***************************************************************************)
(* Bounds                                                                  *)
(***************************************************************************)
\* number of log events the application emits in one behaviour of Spec
MaxEvents == 2
\* number of metadata keys one event carries
MaxMeta == 2

(***************************************************************************)
(* JavaScript values                                                       *)
(***************************************************************************)
Str(s) == [t |-> "string", s |-> s]
Num(s) == [t |-> "number", s |-> s]
Undefined == [t |-> "undefined", s |-> "undefined"]
\* a member inherited from Object.prototype (a function or an object)
Inherited == [t |-> "function", s |-> "function"]
\* an object without a prototype, e.g. the result of querystring.parse():
\* it has no toString and no valueOf
NullProto == [t |-> "nullproto", s |-> ""]
None == [t |-> "none", s |-> ""]

\* ToBoolean, as used by `if (x)' and `x || y'
Truthy(v) ==
  CASE v.t = "undefined" -> FALSE
    [] v.t = "string"    -> v.s # ""
    [] v.t = "number"    -> v.s \notin {"0", "NaN"}
    [] OTHER             -> TRUE

\* String(v) throws a TypeError when v cannot be converted to a primitive
StringThrows(v) == v.t = "nullproto"

\* String(v)
String(v) == Str(v.s)

\* the names every object literal inherits from Object.prototype
ObjectPrototypeKeys == {"constructor", "toString", "valueOf", "hasOwnProperty"}

\* s.toUpperCase(), on the level names of the model
toUpperCase(s) ==
  CASE s = "error"          -> "ERROR"
    [] s = "warn"           -> "WARN"
    [] s = "info"           -> "INFO"
    [] s = "http"           -> "HTTP"
    [] s = "verbose"        -> "VERBOSE"
    [] s = "debug"          -> "DEBUG"
    [] s = "silly"          -> "SILLY"
    [] s = "fatal"          -> "FATAL"
    [] s = "trace"          -> "TRACE"
    [] s = "emerg"          -> "EMERG"
    [] s = "alert"          -> "ALERT"
    [] s = "crit"           -> "CRIT"
    [] s = "warning"        -> "WARNING"
    [] s = "notice"         -> "NOTICE"
    [] s = "constructor"    -> "CONSTRUCTOR"
    [] s = "toString"       -> "TOSTRING"
    [] s = "valueOf"        -> "VALUEOF"
    [] s = "hasOwnProperty" -> "HASOWNPROPERTY"

(***************************************************************************)
(* JavaScript objects: own properties in insertion order                   *)
(***************************************************************************)
Has(o, k) == \E i \in 1..Len(o) : o[i].key = k

\* o[k]: the own property, or undefined
Get(o, k) ==
  IF Has(o, k) THEN o[CHOOSE i \in 1..Len(o) : o[i].key = k].value
  ELSE Undefined

\* o[k] = v: an existing key keeps its position, a new key goes last
Set(o, k, v) ==
  IF Has(o, k)
  THEN [i \in 1..Len(o) |-> IF o[i].key = k THEN [key |-> k, value |-> v] ELSE o[i]]
  ELSE Append(o, [key |-> k, value |-> v])

\* delete o[k]
Delete(o, k) == SelectSeq(o, LAMBDA p : p.key # k)

RECURSIVE Assign(_, _)
\* Object.assign(target, source)
Assign(target, source) ==
  IF source = <<>> THEN target
  ELSE Assign(Set(target, Head(source).key, Head(source).value), Tail(source))

(***************************************************************************)
(* Configuration                                                           *)
(***************************************************************************)
SERVICE_NAME == "nodejs-log-correlation-demo-3"
SCOPE_NAME == "winston-signoz-transport"
SCOPE_VERSION == "1.0.0"

Variants == {"loggerA", "loggerB", "otel"}

(***************************************************************************)
(* Inputs: the trace context reader and the application's log events       *)
(***************************************************************************)
\* span.spanContext() of the active span; None when no span is active
SpanContexts ==
  { [traceId |-> Str("aaaaaaaaaaaaaaaaaaaaaaaaaaaaaaaa"),
     spanId |-> Str("bbbbbbbbbbbbbbbb"), traceFlags |-> Num("1")],
    [traceId |-> Str("cccccccccccccccccccccccccccccccc"),
     spanId |-> Str("dddddddddddddddd"), traceFlags |-> Num("0")] }

Contexts == {None} \cup SpanContexts

\* the level strings an info object may carry: the seven of the table, seven
\* names no table has, and the names of four members of Object.prototype
Levels == {"error", "warn", "info", "http", "verbose", "debug", "silly",
           "fatal", "trace", "emerg", "alert", "crit", "warning", "notice"}
          \cup ObjectPrototypeKeys

\* createLogger({ level: 'info' }) and new SigNozTransport({ level: 'info' }):
\* the loggers of logger.js hand their transport the events at info or above;
\* the transport of winston-otel-transport.js is constructed elsewhere and
\* sets no level
Passes(v, level) == v = "otel" \/ level \in {"error", "warn", "info"}

\* metadata keys in the order the application writes them, and the values
\* each may carry
MetaKeyOrder == <<"service", "database", "trace_id", "span_id", "trace_flags",
                  "traceID", "traceId", "spanId", "traceFlags", "log.level">>

MetaKeys == {MetaKeyOrder[i] : i \in 1..Len(MetaKeyOrder)}

MetaValues(k) ==
  CASE k = "service"     -> {Str("billing"), Str("")}
    [] k = "database"    -> {Str("orders_db"), NullProto}
    [] k = "trace_id"    -> {Str("feedfeedfeedfeedfeedfeedfeedfeed")}
    [] k = "span_id"     -> {Str("beefbeefbeefbeef")}
    [] k = "trace_flags" -> {Str("01")}
    [] k = "traceID"     -> {Str("cafe")}
    [] k = "traceId"     -> {Str("abc"), Str("")}
    [] k = "spanId"      -> {Str("def")}
    [] k = "traceFlags"  -> {Num("0")}
    [] k = "log.level"   -> {Str("custom")}

AllMetaValues == UNION {MetaValues(k) : k \in MetaKeys}

\* the metadata objects with the keys of S
MetaOver(S) ==
  LET order == SelectSeq(MetaKeyOrder, LAMBDA k : k \in S)
  IN  { [i \in 1..Len(order) |-> [key |-> order[i], value |-> f[order[i]]]] :
          f \in {g \in [S -> AllMetaValues] : \A k \in S : g[k] \in MetaValues(k)} }

Metas == UNION {MetaOver(S) : S \in {T \in SUBSET MetaKeys : Cardinality(T) <= MaxMeta}}

Events == [level : Levels, message : {Str("db down")}, meta : Metas]

\* the events of the delivery specification
FewMetas == {<<>>,
             <<[key |-> "database", value |-> Str("orders_db")]>>,
             <<[key |-> "database", value |-> NullProto]>>}

FewEvents == [level : {"info"}, message : {Str("db down")}, meta : FewMetas]

NoEvent == [level |-> "", message |-> Undefined, meta |-> <<>>]

(***************************************************************************)
(* The logger: defaultMeta and the format pipeline                         *)
(***************************************************************************)
\* winston.createLogger({ defaultMeta: { service: SERVICE_NAME } })
defaultMeta(v) ==
  IF v \in {"loggerA", "loggerB"}
  THEN <<[key |-> "service", value |-> Str(SERVICE_NAME)]>>
  ELSE <<>>

\* the info object the logger hands to its formats
createInfo(v, ev) ==
  Assign(Assign(defaultMeta(v), ev.meta),
         <<[key |-> "level", value |-> Str(ev.level)],
           [key |-> "message", value |-> ev.message]>>)

\* winston.format.timestamp(...)
timestamp(i) == Set(i, "timestamp", Str("2026-01-01 00:00:00"))

\* addTraceContext: copy the active span's context into the info object
addTraceContext(i, c) ==
  IF c # None
  THEN Set(Set(Set(i, "traceId", c.traceId), "spanId", c.spanId),
           "traceFlags", c.traceFlags)
  ELSE i

\* removeDuplicateTraceFields without its third delete
removeDuplicateTraceFields_keepsFlags(i) ==
  Delete(Delete(i, "trace_id"), "span_id")

\* removeDuplicateTraceFields: drop the underscore versions
removeDuplicateTraceFields(i) ==
  Delete(Delete(Delete(i, "trace_id"), "span_id"), "trace_flags")

\* format: winston.format.combine(...) of each logger; the transport of
\* winston-otel-transport.js reads the fields addTraceContext writes
format(v, i, c) ==
  CASE v = "loggerA" -> addTraceContext(timestamp(i), c)
    [] v = "loggerB" -> removeDuplicateTraceFields(addTraceContext(timestamp(i), c))
    [] v = "otel"    -> addTraceContext(i, c)

(***************************************************************************)
(* Severity mapping                                                        *)
(***************************************************************************)
\* table[name] on an object literal: an own entry, else a member inherited
\* from Object.prototype, else undefined
Lookup(table, name) ==
  IF name \in DOMAIN table THEN Num(table[name])
  ELSE IF name \in ObjectPrototypeKeys THEN Inherited
  ELSE Undefined

\* x || d
OrElse(x, d) == IF Truthy(x) THEN x ELSE d

\* x ?? d
Nullish(x, d) == IF x.t = "undefined" THEN d ELSE x

\* logger.js, first variant
severityMapA ==
  [error |-> "17", warn |-> "13", info |-> "9", debug |-> "5", silly |-> "1"]

\* logger.js, second variant
levelMap ==
  [error |-> "17", warn |-> "13", info |-> "9", debug |-> "5", silly |-> "1"]

\* winston-otel-transport.js
severityMap ==
  [error |-> "17", warn |-> "13", info |-> "9", http |-> "9",
   verbose |-> "5", debug |-> "5", silly |-> "1"]

\* the severity number each variant computes for a level
severity(v, level) ==
  CASE v = "loggerA" -> OrElse(Lookup(severityMapA, level), Num("9"))
    [] v = "loggerB" -> Nullish(Lookup(levelMap, level), Num("9"))
    [] v = "otel"    -> OrElse(Lookup(severityMap, level), Num("9"))

(***************************************************************************)
(* Record builder                                                          *)
(***************************************************************************)
\* the keys of the info object the transports do not copy into attributes
Excluded == {"level", "message", "timestamp", "service",
             "traceId", "spanId", "traceFlags"}

\* the two entries every variant starts the attributes object with
baseAttributes(i) ==
  <<[key |-> "service.name", value |-> OrElse(Get(i, "service"), Str(SERVICE_NAME))],
    [key |-> "log.level", value |-> Get(i, "level")]>>

\* if (info.traceId) ... if (info.spanId) ... if (info.traceFlags !== undefined)
traceAttributes(a, i, traceKey, spanKey, flagsKey) ==
  LET a1 == IF Truthy(Get(i, "traceId")) THEN Set(a, traceKey, Get(i, "traceId")) ELSE a
      a2 == IF Truthy(Get(i, "spanId")) THEN Set(a1, spanKey, Get(i, "spanId")) ELSE a1
  IN  IF Get(i, "traceFlags") # Undefined
      THEN Set(a2, flagsKey, Get(i, "traceFlags"))
      ELSE a2

RECURSIVE copyMetadata(_, _, _)
\* Object.keys(info).forEach(k => { if (!excluded.includes(k)) attrs[k] = info[k] })
copyMetadata(a, i, n) ==
  IF n > Len(i) THEN a
  ELSE copyMetadata(IF i[n].key \notin Excluded THEN Set(a, i[n].key, i[n].value) ELSE a,
                    i, n + 1)

\* the attributes object of each variant, before it is flattened
attributes(v, i) ==
  CASE v = "loggerA" ->
         copyMetadata(traceAttributes(baseAttributes(i), i, "traceID", "spanID", "trace_flags"), i, 1)
    [] v = "loggerB" ->
         copyMetadata(baseAttributes(i), i, 1)
    [] v = "otel" ->
         copyMetadata(traceAttributes(baseAttributes(i), i, "trace_id", "span_id", "trace_flags"), i, 1)

\* Object.keys(attrs).map(k => ({ key: k, value: { stringValue: String(attrs[k]) } }))
flatten(a) ==
  [n \in 1..Len(a) |-> [key |-> a[n].key, value |-> [stringValue |-> String(a[n].value)]]]

\* the map throws when String() throws on one of the values
flattenThrows(a) == \E n \in 1..Len(a) : StringThrows(a[n].value)

\* if (info.traceId) logRecord.traceId = info.traceId; ... (second variant only)
topLevelTrace(v, i) ==
  IF v = "loggerB"
  THEN (IF Truthy(Get(i, "traceId")) THEN [traceId |-> Get(i, "traceId")] ELSE <<>>)
       @@ (IF Truthy(Get(i, "spanId")) THEN [spanId |-> Get(i, "spanId")] ELSE <<>>)
       @@ (IF Get(i, "traceFlags") # Undefined THEN [traceFlags |-> Get(i, "traceFlags")] ELSE <<>>)
  ELSE <<>>

\* the log record of one info object
buildRecord(v, i) ==
  [severityNumber |-> severity(v, Get(i, "level").s),
   severityText   |-> toUpperCase(Get(i, "level").s),
   body           |-> [stringValue |-> Get(i, "message")],
   attributes     |-> flatten(attributes(v, i))]
  @@ topLevelTrace(v, i)

(***************************************************************************)
(* Envelope builder                                                        *)
(***************************************************************************)
\* wrap that puts the record into the envelope twice
wrap_twice(record) ==
  [resourceLogs |-> <<
     [resource  |-> [attributes |-> <<[key |-> "service.name",
                                       value |-> [stringValue |-> Str(SERVICE_NAME)]]>>],
      scopeLogs |-> <<
        [scope      |-> [name |-> SCOPE_NAME, version |-> SCOPE_VERSION],
         logRecords |-> <<record, record>>] >>] >>]

\* the envelope of the transports: one resource, one scope, one record
wrap(record) ==
  [resourceLogs |-> <<
     [resource  |-> [attributes |-> <<[key |-> "service.name",
                                       value |-> [stringValue |-> Str(SERVICE_NAME)]]>>],
      scopeLogs |-> <<
        [scope      |-> [name |-> SCOPE_NAME, version |-> SCOPE_VERSION],
         logRecords |-> <<record>>] >>] >>]

RECURSIVE CountInScopes(_)
CountInScopes(scopeLogs) ==
  IF scopeLogs = <<>> THEN 0
  ELSE Len(Head(scopeLogs).logRecords) + CountInScopes(Tail(scopeLogs))

RECURSIVE CountInResources(_)
CountInResources(resourceLogs) ==
  IF resourceLogs = <<>> THEN 0
  ELSE CountInScopes(Head(resourceLogs).scopeLogs) + CountInResources(Tail(resourceLogs))

\* the number of log records one payload carries
CountRecords(p) == CountInResources(p.resourceLogs)

(***************************************************************************)
(* State machine                                                           *)
(***************************************************************************)
\* the response status codes the collector answers with
StatusCodes == {"200", "500"}

\* variants whose log() starts with setImmediate(() => this.emit('logged', info))
SchedulesLogged(v) == v \in {"loggerA", "otel"}

\* the variant whose log() wraps record construction and send in try/catch
CatchesErrors(v) == v = "otel"

Init ==
  /\ variant \in Variants
  /\ pc = "idle"
  /\ event = NoEvent
  /\ ctx = None
  /\ info = <<>>
  /\ sevNum = None
  /\ outcome = "none"
  /\ logRecord = None
  /\ payload = None
  /\ requests = <<>>
  /\ diag = 0
  /\ callbacks = 0
  /\ thrown = 0
  /\ nLogged = 0
  /\ immediates = 0
  /\ logged = 0

\* the application emits a log event while span context c is active
Emit(ev, c) ==
  /\ pc = "idle"
  /\ nLogged < MaxEvents
  /\ Passes(variant, ev.level)
  /\ event' = ev
  /\ ctx' = c
  /\ pc' = "emitted"
  /\ UNCHANGED <<variant, info, sevNum, outcome, logRecord, payload, requests,
                 diag, callbacks, thrown, nLogged, immediates, logged>>

\* _send / sendToSigNoz: one https.request per payload, handlers registered,
\* body written, request ended; nothing is awaited
send(p) ==
  Append(requests, [event |-> nLogged + 1, records |-> CountRecords(p),
                    status |-> "pending"])

\* the format pipeline followed by SigNozTransport.log(info, callback)
Log ==
  /\ pc = "emitted"
  /\ LET i == format(variant, createInfo(variant, event), ctx)
         throws == flattenThrows(attributes(variant, i))
     IN  /\ info' = i
         /\ sevNum' = severity(variant, Get(i, "level").s)
         /\ immediates' = IF SchedulesLogged(variant) THEN immediates + 1 ELSE immediates
         /\ IF ~throws
            THEN /\ logRecord' = buildRecord(variant, i)
                 /\ payload' = wrap(buildRecord(variant, i))
                 /\ requests' = send(wrap(buildRecord(variant, i)))
                 /\ callbacks' = callbacks + 1
                 /\ outcome' = "sent"
                 /\ UNCHANGED <<diag, thrown>>
            ELSE /\ logRecord' = None
                 /\ payload' = None
                 /\ requests' = requests
                 /\ IF CatchesErrors(variant)
                    THEN /\ diag' = diag + 1
                         /\ callbacks' = callbacks + 1
                         /\ outcome' = "caught"
                         /\ thrown' = thrown
                    ELSE /\ thrown' = thrown + 1
                         /\ outcome' = "threw"
                         /\ UNCHANGED <<diag, callbacks>>
  /\ nLogged' = nLogged + 1
  /\ pc' = "idle"
  /\ UNCHANGED <<variant, event, ctx, logged>>

\* a response callback that sends the event again after a non-200 status
Respond_resends(n, code) ==
  /\ n \in 1..Len(requests)
  /\ requests[n].status = "pending"
  /\ requests' = IF code # "200"
                 THEN Append([requests EXCEPT ![n].status = code],
                             [requests[n] EXCEPT !.status = "pending"])
                 ELSE [requests EXCEPT ![n].status = code]
  /\ diag' = IF code # "200" THEN diag + 1 ELSE diag
  /\ UNCHANGED <<variant, pc, event, ctx, info, sevNum, outcome, logRecord,
                 payload, callbacks, thrown, nLogged, immediates, logged>>

\* the response callback of request n: res => { if (res.statusCode !== 200) console.error(...) }
Respond(n, code) ==
  /\ n \in 1..Len(requests)
  /\ requests[n].status = "pending"
  /\ requests' = [requests EXCEPT ![n].status = code]
  /\ diag' = IF code # "200" THEN diag + 1 ELSE diag
  /\ UNCHANGED <<variant, pc, event, ctx, info, sevNum, outcome, logRecord,
                 payload, callbacks, thrown, nLogged, immediates, logged>>

\* the 'error' handler of request n: err => console.error(...)
NetError(n) ==
  /\ n \in 1..Len(requests)
  /\ requests[n].status = "pending"
  /\ requests' = [requests EXCEPT ![n].status = "error"]
  /\ diag' = diag + 1
  /\ UNCHANGED <<variant, pc, event, ctx, info, sevNum, outcome, logRecord,
                 payload, callbacks, thrown, nLogged, immediates, logged>>

\* the setImmediate callback: this.emit('logged', info)
EmitLogged ==
  /\ immediates > 0
  /\ immediates' = immediates - 1
  /\ logged' = logged + 1
  /\ UNCHANGED <<variant, pc, event, ctx, info, sevNum, outcome, logRecord,
                 payload, requests, diag, callbacks, thrown, nLogged>>

Next ==
  \/ \E ev \in FewEvents, c \in Contexts : Emit(ev, c)
  \/ Log
  \/ \E n \in 1..MaxEvents, code \in StatusCodes : Respond(n, code)
  \/ \E n \in 1..MaxEvents : NetError(n)
  \/ EmitLogged

\* delivery: a few events, every interleaving of their deliveries
Spec == Init /\ [][Next]_vars

\* record building: one event drawn from the whole input set, logged once
InitBuild ==
  /\ variant \in Variants
  /\ pc = "emitted"
  /\ event \in {ev \in Events : Passes(variant, ev.level)}
  /\ ctx \in Contexts
  /\ info = <<>>
  /\ sevNum = None
  /\ outcome = "none"
  /\ logRecord = None
  /\ payload = None
  /\ requests = <<>>
  /\ diag = 0
  /\ callbacks = 0
  /\ thrown = 0
  /\ nLogged = 0
  /\ immediates = 0
  /\ logged = 0

NextBuild == Log \/ EmitLogged

SpecBuild == InitBuild /\ [][NextBuild]_vars

\* the severity mapping alone: const severity = severityMap[info.level] || 9
\* (sevNum = levelMap[info.level] ?? 9), applied to one level string
Severity ==
  /\ pc = "mapping"
  /\ sevNum' = severity(variant, event.level)
  /\ pc' = "mapped"
  /\ UNCHANGED <<variant, event, ctx, info, outcome, logRecord, payload, requests,
                 diag, callbacks, thrown, nLogged, immediates, logged>>

InitSeverity ==
  /\ variant \in Variants
  /\ pc = "mapping"
  /\ event \in [level : Levels, message : {Str("db down")}, meta : {<<>>}]
  /\ ctx = None
  /\ info = <<>>
  /\ sevNum = None
  /\ outcome = "none"
  /\ logRecord = None
  /\ payload = None
  /\ requests = <<>>
  /\ diag = 0
  /\ callbacks = 0
  /\ thrown = 0
  /\ nLogged = 0
  /\ immediates = 0
  /\ logged = 0

NextSeverity == Severity

\* the severity mapping as a function: one level drawn from Levels, mapped once
SpecSeverity == InitSeverity /\ [][NextSeverity]_vars

TypeOK ==
  /\ variant \in Variants
  /\ pc \in {"idle", "emitted", "mapping", "mapped"}
  /\ outcome \in {"none", "sent", "caught", "threw"}
  /\ nLogged \in 0..MaxEvents
  /\ Len(requests) <= nLogged

(***************************************************************************)
(* Properties                                                              *)
(***************************************************************************)
\* a log call has run and built a record
Built == pc = "idle" /\ nLogged > 0 /\ logRecord # None

AttrKeys(rec) == {rec.attributes[n].key : n \in 1..Len(rec.attributes)}

AttrCount(rec, k) == Cardinality({n \in 1..Len(rec.attributes) : rec.attributes[n].key = k})

AttrValue(rec, k) ==
  rec.attributes[CHOOSE n \in 1..Len(rec.attributes) : rec.attributes[n].key = k].value.stringValue

TopLevelTraceFields == {"traceId", "spanId", "traceFlags"}

\* C1: the number of outbound requests equals the number of events handed to
\* log: request n carries event n and exactly one log record, so no event is
\* dropped, sent twice or coalesced with another.
C1_OneRequestPerEvent ==
  pc = "idle" =>
    /\ Len(requests) = nLogged
    /\ \A n \in 1..Len(requests) : requests[n].event = n /\ requests[n].records = 1

\* C2: every log call hands one envelope to the delivery sink, invokes its
\* callback and returns to its caller in the same step, leaving the new request
\* pending and the earlier requests as they were, whatever the state of the
\* earlier deliveries.
C2_LogNeverWaits ==
  [][(pc = "emitted" /\ pc' = "idle" /\ variant \in {"loggerB", "otel"}) =>
       /\ Len(requests') = Len(requests) + 1
       /\ requests'[Len(requests')].status = "pending"
       /\ \A n \in 1..Len(requests) : requests'[n] = requests[n]
       /\ callbacks' = callbacks + 1
       /\ thrown' = thrown]_vars

\* a delivery ends in failure in this step: request n leaves "pending" for a
\* non-200 status or a network error
Fails(n) ==
  /\ n \in 1..Len(requests)
  /\ requests[n].status = "pending"
  /\ n \in 1..Len(requests')
  /\ requests'[n].status \notin {"pending", "200"}

\* C3: when a delivery ends with a non-200 status or a network error, the
\* failure goes to the diagnostic channel and nowhere else: no exception, the
\* log call's result and callback count stay as they were, and no request is
\* added (no re-send) or kept for later.
C3_FailureOnlyDiagnosed ==
  [][\A n \in 1..MaxEvents : Fails(n) =>
        /\ diag' = diag + 1
        /\ thrown' = thrown
        /\ callbacks' = callbacks
        /\ outcome' = outcome
        /\ nLogged' = nLogged
        /\ pc' = pc
        /\ Len(requests') = Len(requests)
        /\ \A m \in 1..Len(requests) : m # n => requests'[m] = requests[m]]_vars

\* two deliveries of one behaviour have failed, one by status and one by a
\* network error, after the log calls that produced them returned
C3_Witness ==
  /\ callbacks = 2
  /\ \E m, n \in 1..Len(requests) :
       requests[m].status = "500" /\ requests[n].status = "error"
  /\ diag = 2

\* the table of section 4.2, with 9 for every other level
TableSeverity(level) ==
  CASE level = "error"   -> "17"
    [] level = "warn"    -> "13"
    [] level = "info"    -> "9"
    [] level = "http"    -> "9"
    [] level = "verbose" -> "5"
    [] level = "debug"   -> "5"
    [] level = "silly"   -> "1"
    [] OTHER             -> "9"

\* C4: the severity mapping returns the table value for each recognized level
\* (error 17, warn 13, info 9, http 9, verbose 5, debug 5, silly 1) and 9 for
\* every level string the table does not have.
C4_SeverityTable ==
  (pc = "mapped" /\ variant \in {"loggerB", "otel"}) =>
    sevNum = Num(TableSeverity(event.level))

\* the attribute keys that name a trace identifier
TraceAttrKeys == {"traceID", "spanID", "traceId", "spanId", "traceFlags",
                  "trace_id", "span_id", "trace_flags"}

\* C5: a record built while no trace is active has no top-level traceId,
\* spanId or traceFlags, and no trace-identifier entry in its attributes.
C5_NoTraceNoTraceFields ==
  (Built /\ ctx = None /\ variant \in {"loggerB", "otel"}) =>
    /\ DOMAIN logRecord \cap TopLevelTraceFields = {}
    /\ AttrKeys(logRecord) \cap TraceAttrKeys = {}

\* C6: a record built while a trace is active carries top-level traceId,
\* spanId and traceFlags equal to the values of the span context, unchanged.
C6_TraceFieldsExact ==
  (Built /\ ctx # None) =>
    /\ TopLevelTraceFields \subseteq DOMAIN logRecord
    /\ logRecord.traceId = ctx.traceId
    /\ logRecord.spanId = ctx.spanId
    /\ logRecord.traceFlags = ctx.traceFlags

\* the camelCase and the underscore namings of each trace identifier
NamingPairs ==
  { <<{"traceID", "traceId"}, "trace_id">>,
    <<{"spanID", "spanId"}, "span_id">>,
    <<{"traceFlags"}, "trace_flags">> }

\* C7: the attributes of a record never hold both a camelCase and an
\* underscore form of the same trace identifier.
C7_OneNaming ==
  Built =>
    \A p \in NamingPairs :
      ~(p[1] \cap AttrKeys(logRecord) # {} /\ p[2] \in AttrKeys(logRecord))

\* the reserved field names of section 3
ReservedNames == {"level", "message", "timestamp", "service",
                  "traceId", "spanId", "traceFlags",
                  "trace_id", "span_id", "trace_flags"}

UnderscoreNames == {"trace_id", "span_id", "trace_flags"}

\* C8: no reserved field name is the key of more than one attribute, and in
\* the logger whose format pipeline has removeDuplicateTraceFields (the second
\* variant of logger.js) the underscore names an upstream step added are gone
\* from the info object before the transport flattens it, so none of them is
\* an attribute.
C8_ReservedOnceAndStripped ==
  Built =>
    /\ \A k \in ReservedNames : AttrCount(logRecord, k) <= 1
    /\ variant = "loggerB" =>
         \A k \in UnderscoreNames : ~Has(info, k) /\ k \notin AttrKeys(logRecord)

\* the second variant has logged, inside a span, an event to which an
\* upstream step had added trace_id and trace_flags
C8_Witness ==
  /\ Built
  /\ variant = "loggerB"
  /\ ctx # None
  /\ Has(event.meta, "trace_id")
  /\ Has(event.meta, "trace_flags")

\* C9: every envelope has exactly one resourceLogs entry, one scopeLogs entry
\* and one log record, and its scope is winston-signoz-transport 1.0.0 on
\* every call.
C9_OneOfEach ==
  payload # None =>
    /\ Len(payload.resourceLogs) = 1
    /\ Len(payload.resourceLogs[1].scopeLogs) = 1
    /\ Len(payload.resourceLogs[1].scopeLogs[1].logRecords) = 1
    /\ payload.resourceLogs[1].scopeLogs[1].logRecords[1] = logRecord
    /\ payload.resourceLogs[1].scopeLogs[1].scope =
         [name |-> "winston-signoz-transport", version |-> "1.0.0"]

\* the second envelope of a behaviour has been built and handed to the sink
C9_Witness ==
  /\ nLogged = 2
  /\ Len(requests) = 2
  /\ outcome = "sent"
  /\ payload # None

\* the service name section 4.3 asks for: the event's (non-empty) override,
\* else the configured name
ExpectedService ==
  IF Truthy(Get(event.meta, "service"))
  THEN String(Get(event.meta, "service"))
  ELSE Str(SERVICE_NAME)

\* C10: whatever the metadata, the attributes hold service.name, equal to the
\* event's service override if given and else to the configured service name,
\* and log.level, equal to the event's raw level string.
C10_ServiceAndLevel ==
  (Built /\ variant \in {"loggerB", "otel"}) =>
    /\ AttrCount(logRecord, "service.name") = 1
    /\ AttrValue(logRecord, "service.name") = ExpectedService
    /\ AttrCount(logRecord, "log.level") = 1
    /\ AttrValue(logRecord, "log.level") = Str(event.level)

\* the text an attribute is to carry for a metadata value: its string form,
\* and the default representation of an object for a value that has none
TextForm(v) == IF v.t = "nullproto" THEN Str("[object Object]") ELSE Str(v.s)

\* C11: each metadata key of the event outside the reserved-field set is the
\* key of exactly one attribute, whose value is the text form of the metadata
\* value, and no metadata key inside the reserved-field set is copied into the
\* attributes.
C11_MetadataFlattened ==
  (pc = "idle" /\ nLogged > 0 /\ variant \in {"loggerB", "otel"}) =>
    \A n \in 1..Len(event.meta) :
      LET k == event.meta[n].key
          v == event.meta[n].value
      IN  IF k \notin ReservedNames
          THEN /\ logRecord # None
               /\ AttrCount(logRecord, k) = 1
               /\ AttrValue(logRecord, k) = TextForm(v)
          ELSE logRecord # None =>
                 ~(k \in AttrKeys(logRecord) /\ AttrValue(logRecord, k) = TextForm(v))

\* C12: in every record the top-level fields traceId, spanId and traceFlags
\* are all three present or all three absent, also for events whose own trace
\* fields are empty, zero or only partly supplied.
C12_TraceFieldsAllOrNone ==
  Built =>
    \/ TopLevelTraceFields \subseteq DOMAIN logRecord
    \/ TopLevelTraceFields \cap DOMAIN logRecord = {}

====
